---- MODULE Spec2Model ----
(***************************************************************************)
(* Model of src/app.py, the Movement Lab fitness dashboard: one Streamlit  *)
(* script that is re-executed top to bottom on every widget interaction.   *)
(*                                                                         *)
(* A DataFrame is [columns, rows]; a row is [idx, val] where idx is the    *)
(* pandas index label and val maps column name to cell.  Numeric cells are *)
(* fixed-point integers (BMI in tenths, so 18.5 is 185); the pandas        *)
(* missing value of a numeric column is NaN, of the category column NoCat. *)
(***************************************************************************)
EXTENDS Integers, Sequences, FiniteSets, TLC

VARIABLES
    raw,                \* parsed content of ML_school_testing_clean.csv
    cache,              \* st.cache_data store of load_data: <<>> or <<table>>
    df,                 \* module-level df of the current run
    first,              \* TRUE until the first run has created the widgets
    selected_students,  \* value of the multiselect
    selected_bmi,       \* value of the selectbox
    filtered_df,        \* module-level filtered_df of the current run
    metrics,            \* the four st.metric values shown in tab1
    produced,           \* page elements rendered so far in the current run
    exception,          \* uncaught exception of the current run
    csv,                \* bytes handed to st.download_button
    loads,              \* number of executions of the body of load_data
    pc                  \* position in the script

vars == <<raw, cache, df, first, selected_students, selected_bmi, filtered_df,
          metrics, produced, exception, csv, loads, pc>>

---------------------------------------------------------------------------
(* Bounds of the model *)

MaxRows == 2
LowBMI == 5
HighBMI == 1005

---------------------------------------------------------------------------
(* Values *)

NaN == -9999
NoCat == "<NA>"
NoException == "None"

Bin0 == 0
Bin1 == 185
Bin2 == 250
Bin3 == 300
Bin4 == 1000

Names == {"Ann", "Bob", "Cy"}

\* Python's str ordering restricted to the names of the model
NameRank(n) == CASE n = "Ann" -> 1 [] n = "Bob" -> 2 [] n = "Cy" -> 3

Schema == <<"Name", "Height_cm", "Weight_kg", "BMI", "Rel_Grip_perKg",
            "UB_Strength_kg", "LB_Squat_1min_reps", "Flexibility_cm",
            "MB_OH_Best_m", "MB_OH_Mean_m", "MB_OH_Trials">>

Range(s) == {s[i] : i \in DOMAIN s}

EmptyFrame == [columns |-> <<>>, rows |-> <<>>]

RawRow(n, b, q) ==
    [Name |-> n, Height_cm |-> 1500, Weight_kg |-> 500, BMI |-> b,
     Rel_Grip_perKg |-> 40, UB_Strength_kg |-> 200, LB_Squat_1min_reps |-> q,
     Flexibility_cm |-> 120, MB_OH_Best_m |-> 45, MB_OH_Mean_m |-> 40,
     MB_OH_Trials |-> 3]

\* pd.read_csv: the file's records under a RangeIndex 0..n-1
read_csv(recs) ==
    [columns |-> Schema,
     rows |-> [i \in DOMAIN recs |-> [idx |-> i - 1, val |-> recs[i]]]]

---------------------------------------------------------------------------
(* load_data *)

\* pd.cut(bins=[0, 18.5, 25, 30, 100]) with left-closed intervals
pd_cut_left_closed(b) ==
    IF b = NaN THEN NoCat
    ELSE IF Bin0 <= b /\ b < Bin1 THEN "Underweight"
    ELSE IF Bin1 <= b /\ b < Bin2 THEN "Normal"
    ELSE IF Bin2 <= b /\ b < Bin3 THEN "Overweight"
    ELSE IF Bin3 <= b /\ b < Bin4 THEN "Obese"
    ELSE NoCat

\* pd.cut(bins=[0, 18.5, 25, 30, 100], labels=[...]), right=True by default
pd_cut(b) ==
    IF b = NaN THEN NoCat
    ELSE IF Bin0 < b /\ b <= Bin1 THEN "Underweight"
    ELSE IF Bin1 < b /\ b <= Bin2 THEN "Normal"
    ELSE IF Bin2 < b /\ b <= Bin3 THEN "Overweight"
    ELSE IF Bin3 < b /\ b <= Bin4 THEN "Obese"
    ELSE NoCat

\* column access d[col]: the Series of the column, by position
Column(d, col) == [i \in DOMAIN d.rows |-> d.rows[i].val[col]]

\* d[col] = series: append the column when new, overwrite it otherwise
SetColumn(d, col, series) ==
    [columns |-> IF col \in Range(d.columns) THEN d.columns
                 ELSE Append(d.columns, col),
     rows |-> [i \in DOMAIN d.rows |->
                [idx |-> d.rows[i].idx,
                 val |-> [c \in DOMAIN d.rows[i].val \cup {col} |->
                            IF c = col THEN series[i]
                            ELSE d.rows[i].val[c]]]]]

load_data(file) ==
    LET d == read_csv(file)
        bmi == Column(d, "BMI")
    IN SetColumn(d, "BMI_Category", [i \in DOMAIN bmi |-> pd_cut(bmi[i])])

\* load_data without the caching decorator: every call runs the body
CacheMissAlways(store) == TRUE

\* @st.cache_data on load_data (no arguments): a miss only while nothing is stored
CacheMiss(store) == store = <<>>

---------------------------------------------------------------------------
(* Sidebar widgets and the filter *)

\* df['Name'].tolist()
student_names(d) == Column(d, "Name")

\* ['All'] + df['BMI_Category'].dropna().unique().tolist(), as a set
bmi_options(d) == {"All"} \cup (Range(Column(d, "BMI_Category")) \ {NoCat})

\* d[d['Name'].isin(S)] with the labels of the matching rows used as positions
IsinFilterByPosition(d, S) ==
    LET labels == {d.rows[i].idx : i \in {j \in DOMAIN d.rows : d.rows[j].val["Name"] \in S}}
        at == SelectSeq([i \in DOMAIN d.rows |-> [pos |-> i - 1, row |-> d.rows[i]]],
                        LAMBDA e : e.pos \in labels)
    IN [columns |-> d.columns, rows |-> [k \in DOMAIN at |-> at[k].row]]

\* d[~d['Name'].isin(S)]: the mask inverted
IsinFilterNegated(d, S) ==
    [columns |-> d.columns,
     rows |-> SelectSeq(d.rows, LAMBDA r : r.val["Name"] \notin S)]

\* d[d['Name'].isin(S)]: boolean indexing keeps labels and order
IsinFilter(d, S) ==
    [columns |-> d.columns,
     rows |-> SelectSeq(d.rows, LAMBDA r : r.val["Name"] \in S)]

\* d[d['BMI_Category'] == C]; a missing category compares unequal
CategoryFilter(d, C) ==
    [columns |-> d.columns,
     rows |-> SelectSeq(d.rows, LAMBDA r : r.val["BMI_Category"] # NoCat
                                            /\ r.val["BMI_Category"] = C)]

\* the category mask taken against the full table instead of the narrowed one
ApplyFiltersCategoryOnFullTable(d, S, C) ==
    IF C # "All" THEN CategoryFilter(d, C) ELSE IsinFilter(d, S)

\* the category comparison applied without the 'All' guard
ApplyFiltersNoAllGuard(d, S, C) == CategoryFilter(IsinFilter(d, S), C)

\* lines 51-53
ApplyFilters(d, S, C) ==
    LET f1 == IsinFilter(d, S)
    IN IF C # "All" THEN CategoryFilter(f1, C) ELSE f1

---------------------------------------------------------------------------
(* Tab 1: the four metrics *)

Present(series) == SelectSeq(series, LAMBDA x : x # NaN)

RECURSIVE SumSeq(_)
SumSeq(s) == IF s = <<>> THEN 0 ELSE Head(s) + SumSeq(Tail(s))

RECURSIVE MaxSeq(_)
MaxSeq(s) ==
    IF Len(s) = 1 THEN Head(s)
    ELSE LET m == MaxSeq(Tail(s)) IN IF Head(s) >= m THEN Head(s) ELSE m

\* Series.mean(): skips missing values; NaN when none is present
mean(series) ==
    LET p == Present(series)
    IN IF p = <<>> THEN NaN ELSE SumSeq(p) \div Len(p)

\* Series.max(): skips missing values; NaN when none is present
max(series) ==
    LET p == Present(series)
    IN IF p = <<>> THEN NaN ELSE MaxSeq(p)

\* f"{x:.1f}" and f"{x:.2f}": a float NaN formats as the text nan
FormatFloat(x) == IF x = NaN THEN "nan" ELSE ToString(x)

\* int(x) raises ValueError for a float NaN
IntRaises(x) == x = NaN

NoMetrics == [count |-> "", avg_bmi |-> "", avg_grip |-> "", max_squat |-> ""]

---------------------------------------------------------------------------
(* Tab 2: derived column and sort *)

\* Series / Series, element-wise, NaN propagating (ratio kept in thousandths)
SeriesDiv(a, b) ==
    [i \in DOMAIN a |-> IF a[i] = NaN \/ b[i] = NaN THEN NaN
                        ELSE (a[i] * 1000) \div b[i]]

RECURSIVE InsertByName(_, _)
InsertByName(r, s) ==
    IF s = <<>> THEN <<r>>
    ELSE IF NameRank(r.val["Name"]) < NameRank(Head(s).val["Name"]) THEN <<r>> \o s
    ELSE <<Head(s)>> \o InsertByName(r, Tail(s))

RECURSIVE SortRows(_)
SortRows(s) == IF s = <<>> THEN <<>> ELSE InsertByName(Head(s), SortRows(Tail(s)))

\* d.sort_values('Name'): rows reordered, labels kept
sort_values_Name(d) == [columns |-> d.columns, rows |-> SortRows(d.rows)]

\* lines 98-102: copy, add Rel_Strength_perKg, sort by Name
Tab2Frame(d) ==
    sort_values_Name(
        SetColumn(d, "Rel_Strength_perKg",
                  SeriesDiv(Column(d, "UB_Strength_kg"), Column(d, "Weight_kg"))))

---------------------------------------------------------------------------
(* Tab 4: export *)

\* how to_csv writes one cell: missing values become the empty field
FormatCell(col, v) ==
    IF col = "Name" THEN v
    ELSE IF col = "BMI_Category" THEN (IF v = NoCat THEN "" ELSE v)
    ELSE IF v = NaN THEN "" ELSE ToString(v)

\* d.to_csv(index=False).encode('utf-8'): header line, then one line per row
convert_df_to_csv(d) ==
    <<d.columns>> \o
    [i \in DOMAIN d.rows |->
        [k \in DOMAIN d.columns |-> FormatCell(d.columns[k], d.rows[i].val[d.columns[k]])]]

---------------------------------------------------------------------------
(* Input files of the model *)

BMIValues == {NaN, 170, 270}
SquatValues == {NaN, 5}

RawRows == {RawRow(n, b, q) : n \in Names, b \in BMIValues, q \in SquatValues}

\* files of at most MaxRows records whose Name values are distinct
RawTables ==
    UNION {{f \in [1..n -> RawRows] :
              \A i, j \in 1..n : i # j => f[i].Name # f[j].Name} : n \in 0..MaxRows}

\* single-record files sweeping BMI over the range of the bins and beyond
CutTables == {<<RawRow("Ann", b, 5)>> : b \in ((0 - LowBMI)..HighBMI) \cup {NaN}}

InitWith(file) ==
    /\ raw = file
    /\ cache = <<>>
    /\ df = EmptyFrame
    /\ first = TRUE
    /\ selected_students = {}
    /\ selected_bmi = "All"
    /\ filtered_df = EmptyFrame
    /\ metrics = NoMetrics
    /\ produced = {}
    /\ exception = NoException
    /\ csv = <<>>
    /\ loads = 0
    /\ pc = "load"

Init == \E file \in RawTables : InitWith(file)

InitCut == \E file \in CutTables : InitWith(file)

---------------------------------------------------------------------------
(* The script, one action per step of a run *)

\* line 26: df = load_data()
LoadData ==
    /\ pc = "load"
    /\ IF CacheMiss(cache)
       THEN /\ df' = load_data(raw)
            /\ cache' = <<load_data(raw)>>
            /\ loads' = loads + 1
       ELSE /\ df' = cache[1]
            /\ UNCHANGED <<cache, loads>>
    /\ pc' = "widgets"
    /\ UNCHANGED <<raw, first, selected_students, selected_bmi, filtered_df,
                   metrics, produced, exception, csv>>

\* lines 39-48: the widgets return their defaults on the first run and the
\* user's choice afterwards
Widgets ==
    /\ pc = "widgets"
    /\ IF first
       THEN /\ selected_students' = Range(student_names(df))
            /\ selected_bmi' = "All"
       ELSE UNCHANGED <<selected_students, selected_bmi>>
    /\ first' = FALSE
    /\ pc' = "filter"
    /\ UNCHANGED <<raw, cache, df, filtered_df, metrics, produced, exception,
                   csv, loads>>

\* lines 51-53
Filter ==
    /\ pc = "filter"
    /\ filtered_df' = ApplyFilters(df, selected_students, selected_bmi)
    /\ pc' = "tab1"
    /\ UNCHANGED <<raw, cache, df, first, selected_students, selected_bmi,
                   metrics, produced, exception, csv, loads>>

\* lines 72-83: int(max_squat) raises when no squat value is present, and the
\* uncaught exception ends the run
Tab1Metrics ==
    /\ pc = "tab1"
    /\ LET avg_bmi == mean(Column(filtered_df, "BMI"))
           avg_grip == mean(Column(filtered_df, "Rel_Grip_perKg"))
           max_squat == max(Column(filtered_df, "LB_Squat_1min_reps"))
           shown == [count |-> ToString(Len(filtered_df.rows)),
                     avg_bmi |-> FormatFloat(avg_bmi),
                     avg_grip |-> FormatFloat(avg_grip),
                     max_squat |-> ""]
       IN IF IntRaises(max_squat)
          THEN /\ metrics' = shown
               /\ produced' = produced \cup {"count", "avg_bmi", "avg_grip"}
               /\ exception' = "ValueError"
               /\ pc' = "aborted"
          ELSE /\ metrics' = [shown EXCEPT !.max_squat = ToString(max_squat)]
               /\ produced' = produced \cup {"count", "avg_bmi", "avg_grip", "max_squat"}
               /\ exception' = exception
               /\ pc' = "hist"
    /\ UNCHANGED <<raw, cache, df, first, selected_students, selected_bmi,
                   filtered_df, csv, loads>>

\* lines 86-89
Tab1Histogram ==
    /\ pc = "hist"
    /\ produced' = produced \cup {"fig_bmi"}
    /\ pc' = "tab2"
    /\ UNCHANGED <<raw, cache, df, first, selected_students, selected_bmi,
                   filtered_df, metrics, exception, csv, loads>>

\* lines 94-165
Tab2 ==
    /\ pc = "tab2"
    /\ filtered_df' = Tab2Frame(filtered_df)
    /\ produced' = produced \cup {"fig_flex", "fig_abs", "fig_rel", "detail_table"}
    /\ pc' = "tab3"
    /\ UNCHANGED <<raw, cache, df, first, selected_students, selected_bmi,
                   metrics, exception, csv, loads>>

\* lines 169-200
Tab3 ==
    /\ pc = "tab3"
    /\ produced' = produced \cup {"fig_mb", "fig_trials"}
    /\ pc' = "tab4"
    /\ UNCHANGED <<raw, cache, df, first, selected_students, selected_bmi,
                   filtered_df, metrics, exception, csv, loads>>

\* lines 205-225
Tab4 ==
    /\ pc = "tab4"
    /\ csv' = convert_df_to_csv(filtered_df)
    /\ produced' = produced \cup {"data_explorer", "download_button"}
    /\ pc' = "done"
    /\ UNCHANGED <<raw, cache, df, first, selected_students, selected_bmi,
                   filtered_df, metrics, exception, loads>>

\* the user changes a sidebar widget: the script is run again from the top in
\* a fresh namespace; only the cache and the widget values survive
Interact ==
    /\ pc \in {"done", "aborted"}
    /\ \E S \in SUBSET Range(student_names(df)), C \in bmi_options(df) :
          /\ <<S, C>> # <<selected_students, selected_bmi>>
          /\ selected_students' = S
          /\ selected_bmi' = C
    /\ df' = EmptyFrame
    /\ filtered_df' = EmptyFrame
    /\ metrics' = NoMetrics
    /\ produced' = {}
    /\ exception' = NoException
    /\ csv' = <<>>
    /\ pc' = "load"
    /\ UNCHANGED <<raw, cache, first, loads>>

Next ==
    \/ LoadData
    \/ Widgets
    \/ Filter
    \/ Tab1Metrics
    \/ Tab1Histogram
    \/ Tab2
    \/ Tab3
    \/ Tab4
    \/ Interact

Spec == Init /\ [][Next]_vars

\* the loader alone, over the BMI sweep
NextCut == LoadData

SpecCut == InitCut /\ [][NextCut]_vars

---------------------------------------------------------------------------
(* Properties *)

\* positions of the script at which the view of lines 51-53 is the current one
ViewFresh == pc \in {"tab1", "hist", "tab2"}

Vals(d) == [i \in DOMAIN d.rows |-> d.rows[i].val]

\* the row is kept by identity set S and category selector C
Keeps(r, S, C) ==
    /\ r.val["Name"] \in S
    /\ (C = "All" \/ r.val["BMI_Category"] = C)

\* C1: the filtered view holds exactly the rows of the loaded table whose Name
\* is selected and whose BMI_Category matches the selector (or the selector is
\* All), with the table's columns, each row once, in the table's order.
C1_FilteredViewExact ==
    ViewFresh =>
        /\ filtered_df.columns = df.columns
        /\ \A i \in DOMAIN filtered_df.rows :
              \E j \in DOMAIN df.rows :
                 /\ df.rows[j] = filtered_df.rows[i]
                 /\ Keeps(df.rows[j], selected_students, selected_bmi)
        /\ \A j \in DOMAIN df.rows :
              Keeps(df.rows[j], selected_students, selected_bmi) =>
                 \E i \in DOMAIN filtered_df.rows : filtered_df.rows[i] = df.rows[j]
        /\ \A i, k \in DOMAIN filtered_df.rows :
              i < k => filtered_df.rows[i].idx < filtered_df.rows[k].idx

\* a non-empty view from which the category selector dropped a selected row
\* that has another category
C1_Witness ==
    /\ pc = "tab1"
    /\ selected_bmi # "All"
    /\ filtered_df.rows # <<>>
    /\ \E j \in DOMAIN df.rows :
          /\ df.rows[j].val["Name"] \in selected_students
          /\ df.rows[j].val["BMI_Category"] \notin {selected_bmi, NoCat}

\* C2: after the load every record's BMI_Category is Underweight iff
\* 0 < b <= 18.5, Normal iff 18.5 < b <= 25, Overweight iff 25 < b <= 30,
\* Obese iff 30 < b <= 100, and missing iff b <= 0, b > 100 or b is missing.
C2_CutBands ==
    pc = "widgets" =>
        \A i \in DOMAIN df.rows :
            LET b == raw[i].BMI
                c == df.rows[i].val["BMI_Category"]
                num == b # NaN
            IN /\ c \in {"Underweight", "Normal", "Overweight", "Obese", NoCat}
               /\ (c = "Underweight") <=> (num /\ 0 < b /\ b <= 185)
               /\ (c = "Normal") <=> (num /\ 185 < b /\ b <= 250)
               /\ (c = "Overweight") <=> (num /\ 250 < b /\ b <= 300)
               /\ (c = "Obese") <=> (num /\ 300 < b /\ b <= 1000)
               /\ (c = NoCat) <=> (~num \/ b <= 0 \/ b > 1000)

\* a BMI on a band's closed upper edge has been categorised
C2_Witness ==
    /\ pc = "widgets"
    /\ raw[1].BMI = 185
    /\ df.rows[1].val["BMI_Category"] = "Underweight"

\* C3: the metric step completes for every view: no exception, the count is
\* the number of rows, and all four metrics are shown.
C3_AggregatorNeverRaises ==
    pc \in {"hist", "tab2", "tab3", "tab4", "done", "aborted"} =>
        /\ exception = NoException
        /\ metrics.count = ToString(Len(filtered_df.rows))
        /\ {"count", "avg_bmi", "avg_grip", "max_squat"} \subseteq produced

\* C4: every stage of a run receives the view the filter produced.
C4_StagesConsumeFilterView ==
    pc \in {"tab1", "hist", "tab2", "tab3", "tab4"} =>
        filtered_df = ApplyFilters(df, selected_students, selected_bmi)

\* read back of the exported text: header line to columns, the empty field to
\* the missing value, a numeric field to the number it denotes
ParseCell(col, t) ==
    IF col = "Name" THEN t
    ELSE IF col = "BMI_Category" THEN (IF t = "" THEN NoCat ELSE t)
    ELSE IF t = "" THEN NaN ELSE CHOOSE n \in 0..2000 : ToString(n) = t

ParseCsv(bytes) ==
    [columns |-> bytes[1],
     rows |-> [i \in 1..(Len(bytes) - 1) |->
                [idx |-> i - 1,
                 val |-> [c \in Range(bytes[1]) |->
                            LET k == CHOOSE k \in DOMAIN bytes[1] : bytes[1][k] = c
                            IN ParseCell(c, bytes[i + 1][k])]]]]

\* C5: the exported bytes parse back to the rows of the filtered view, under
\* the columns of the loaded table in its column order.
C5_ExportRoundTrip ==
    pc = "done" =>
        LET back == ParseCsv(csv)
        IN /\ back.columns = df.columns
           /\ Vals(back) = Vals(ApplyFilters(df, selected_students, selected_bmi))

\* C6: when a metric fails, the stages after it in the run are still produced.
C6_FailureContained ==
    (pc \in {"done", "aborted"} /\ exception # NoException) =>
        {"fig_bmi", "fig_flex", "fig_abs", "fig_rel", "detail_table", "fig_mb",
         "fig_trials", "data_explorer", "download_button"} \subseteq produced

\* C7: the cached table is the load's result throughout, the body of load_data
\* runs once, every run's df is that table, and each view is computed from it
\* and the current widget values.
C7_TableImmutable ==
    /\ [](/\ loads <= 1
          /\ cache # <<>> => (loads = 1 /\ cache[1] = load_data(raw))
          /\ pc # "load" => df = load_data(raw))
    /\ [][pc = "filter" =>
            filtered_df' = ApplyFilters(load_data(raw), selected_students, selected_bmi)]_vars

\* a run started by a widget change has finished on a narrowed selection
C7_Witness ==
    /\ pc = "done"
    /\ loads = 1
    /\ Len(df.rows) >= 2
    /\ selected_students # Range(student_names(df))
    /\ selected_bmi # "All"

\* C8: with every student selected and the selector at All, the view is the
\* loaded table.
C8_SelectAllIsFullTable ==
    (ViewFresh /\ selected_students = Range(student_names(df)) /\ selected_bmi = "All")
        => filtered_df = df

\* the default selection on a table with a row that has no category
C8_Witness ==
    /\ pc = "tab1"
    /\ selected_students = Range(student_names(df))
    /\ selected_bmi = "All"
    /\ Len(df.rows) >= 2
    /\ filtered_df = df
    /\ \E j \in DOMAIN df.rows : df.rows[j].val["BMI_Category"] = NoCat

\* C9: filtering the filtered view again with the same selection returns it
\* unchanged.
C9_FilterIdempotent ==
    pc = "tab1" =>
        ApplyFilters(filtered_df, selected_students, selected_bmi) = filtered_df

\* a non-empty view that starts after the table's first row
C9_Witness ==
    /\ pc = "tab1"
    /\ filtered_df.rows # <<>>
    /\ filtered_df.rows[1].idx > 0
    /\ selected_bmi # "All"

\* C10: with no student selected the view has no rows, whatever the selector,
\* and the filter raises nothing.
C10_EmptySelectionEmptyView ==
    (ViewFresh /\ selected_students = {}) =>
        /\ filtered_df.rows = <<>>
        /\ filtered_df.columns = df.columns
        /\ exception = NoException

\* nothing selected, a concrete category chosen, on a table that has rows of it
C10_Witness ==
    /\ pc = "tab1"
    /\ selected_students = {}
    /\ selected_bmi # "All"
    /\ \E j \in DOMAIN df.rows : df.rows[j].val["BMI_Category"] = selected_bmi
    /\ filtered_df.rows = <<>>

====
